---- MODULE Spec2Model ----
(***************************************************************************)
(* Dependency-driven schedule propagation of Connect2 (src/app.py):       *)
(* adjust_start_date_based_on_dependency, cascade_updates and the task    *)
(* endpoints add_task_api / update_task_api that call them, next to       *)
(* delete_task_api and complete_task_api.                                 *)
(*                                                                         *)
(* Dates are day numbers 0..MaxDate.  A store maps every id of Ids to a   *)
(* row; a row with exists = FALSE stands for "no such task".  db is the   *)
(* committed database, session the SQLAlchemy session (identity map and   *)
(* flushed but uncommitted changes) of the request being served.          *)
(***************************************************************************)
EXTENDS Integers, FiniteSets, Sequences

\* ------------------------------------------------------------- bounds
MaxTasks == 3        \* ids are 1..MaxTasks
MaxStart == 1        \* start dates a request or a pre-state may carry: 0..MaxStart
MaxDur == 1          \* durations a request or a pre-state may carry: 0..MaxDur
MaxDate == 4         \* scaled datetime.date.max: a later date raises OverflowError
RecursionLimit == 4  \* scaled interpreter recursion limit: deeper raises RecursionError

Ids == 1 .. MaxTasks
Starts == 0 .. MaxStart
Durations == 0 .. MaxDur
\* dependency_id: 0 is None (Python treats None and 0 alike in "if task.dependency_id")
Deps == 0 .. MaxTasks

VARIABLES
    db,        \* committed rows
    session,   \* rows as the serving request sees them (uncommitted changes included)
    pc,        \* position of the serving request: idle, add_adjust, upd_adjust, cascade, done
    cur,       \* id of the task the request works on (root of its cascade), 0 when idle
    stack,     \* recursion stack of cascade_updates: frames [node, todo]
    outcome,   \* how the request ended: none, ok, not_found, deleted, nothing_deleted,
               \* OverflowError, RecursionError, interrupted
    pre,       \* history: session when the running cascade was entered
    visited,   \* history: followers the running cascade has examined
    nvisits,   \* history: number of examinations of the running cascade
    last,      \* history: the latest call of adjust_start_date_based_on_dependency
    prev,      \* history: root, outcome and pre-state of the previous cascade
    cyclic,    \* history: the dependency edges have held a cycle at some time
    orphans,   \* history: tasks whose predecessor was deleted, dependency_id kept since
    reqs,      \* the update requests served at the same time, each with its own session
    writer,    \* the request holding SQLite's write lock (flushed, not committed), or "none"
    overlap    \* history: a request began while another one was being served

\* the state of the requests that are served side by side
conc == <<reqs, writer, overlap>>

vars ==
    <<db, session, pc, cur, stack, outcome, pre, visited, nvisits, last, prev, cyclic,
      orphans, conc>>

\* ------------------------------------------------------------- rows
Absent ==
    [exists |-> FALSE, start_date |-> 0, duration_days |-> 0, dependency_id |-> 0,
     is_completed |-> FALSE]

\* a task as add_task_api builds it: is_completed takes the column default
Task(s, d, p) ==
    [exists |-> TRUE, start_date |-> s, duration_days |-> d, dependency_id |-> p,
     is_completed |-> FALSE]

EmptyStore == [i \in Ids |-> Absent]

\* db.session.get(Task, id) is not None
Has(s, id) == id \in Ids /\ s[id].exists

\* parent.start_date + timedelta(days=parent.duration_days)
EndDate(row) == row.start_date + row.duration_days

NoAdj == [id |-> 0, old |-> 0, new |-> 0, pend |-> -1, moved |-> FALSE, err |-> FALSE]

\* the two requests that may be served at the same time
Requests == {"A", "B"}

\* a request that has not begun: nothing loaded into its session
NoRequest ==
    [pc |-> "idle", cur |-> 0, seen |-> EmptyStore, loaded |-> {}, dirty |-> {},
     stack |-> <<>>, outcome |-> "none"]

NoPrev == [root |-> 0, outcome |-> "none", pre |-> EmptyStore, moved |-> FALSE]

\* ------------------------------------------------------------- adjustment rule
\* the rule with "task.start_date += timedelta(days=parent.duration_days)": the
\* task is shifted by the predecessor's length instead of landing on its end
AdjustShift(s, id) ==
    LET task == s[id]
    IN  IF task.dependency_id # 0 /\ Has(s, task.dependency_id)
        THEN LET parent == s[task.dependency_id]
                 parent_end_date == EndDate(parent)
             IN  IF parent_end_date > MaxDate
                 THEN [db |-> s, moved |-> FALSE, err |-> TRUE]
                 ELSE IF task.start_date < parent_end_date
                      THEN [db |-> [s EXCEPT ![id].start_date = @ + parent.duration_days],
                            moved |-> TRUE, err |-> FALSE]
                      ELSE [db |-> s, moved |-> FALSE, err |-> FALSE]
        ELSE [db |-> s, moved |-> FALSE, err |-> FALSE]

\* the rule with "!=" for "<": a task that starts later is pulled back
AdjustPull(s, id) ==
    LET task == s[id]
    IN  IF task.dependency_id # 0 /\ Has(s, task.dependency_id)
        THEN LET parent == s[task.dependency_id]
                 parent_end_date == EndDate(parent)
             IN  IF parent_end_date > MaxDate
                 THEN [db |-> s, moved |-> FALSE, err |-> TRUE]
                 ELSE IF task.start_date # parent_end_date
                      THEN [db |-> [s EXCEPT ![id].start_date = parent_end_date],
                            moved |-> TRUE, err |-> FALSE]
                      ELSE [db |-> s, moved |-> FALSE, err |-> FALSE]
        ELSE [db |-> s, moved |-> FALSE, err |-> FALSE]

\* the rule with "<=" for "<": a task on the predecessor's end is reported moved
AdjustLe(s, id) ==
    LET task == s[id]
    IN  IF task.dependency_id # 0 /\ Has(s, task.dependency_id)
        THEN LET parent == s[task.dependency_id]
                 parent_end_date == EndDate(parent)
             IN  IF parent_end_date > MaxDate
                 THEN [db |-> s, moved |-> FALSE, err |-> TRUE]
                 ELSE IF task.start_date <= parent_end_date
                      THEN [db |-> [s EXCEPT ![id].start_date = parent_end_date],
                            moved |-> TRUE, err |-> FALSE]
                      ELSE [db |-> s, moved |-> FALSE, err |-> FALSE]
        ELSE [db |-> s, moved |-> FALSE, err |-> FALSE]

\* the rule without "if parent:": a dangling dependency_id raises on None
AdjustNoParentCheck(s, id) ==
    LET task == s[id]
    IN  IF task.dependency_id # 0
        THEN IF ~Has(s, task.dependency_id)
             THEN [db |-> s, moved |-> FALSE, err |-> TRUE]
             ELSE LET parent == s[task.dependency_id]
                      parent_end_date == EndDate(parent)
                  IN  IF parent_end_date > MaxDate
                      THEN [db |-> s, moved |-> FALSE, err |-> TRUE]
                      ELSE IF task.start_date < parent_end_date
                           THEN [db |-> [s EXCEPT ![id].start_date = parent_end_date],
                                 moved |-> TRUE, err |-> FALSE]
                           ELSE [db |-> s, moved |-> FALSE, err |-> FALSE]
        ELSE [db |-> s, moved |-> FALSE, err |-> FALSE]

\* the rule that replaces the task by a fresh Task(...) carrying the new start
\* date: the columns it does not pass fall back to their defaults
AdjustRebuild(s, id) ==
    LET task == s[id]
    IN  IF task.dependency_id # 0 /\ Has(s, task.dependency_id)
        THEN LET parent == s[task.dependency_id]
                 parent_end_date == EndDate(parent)
             IN  IF parent_end_date > MaxDate
                 THEN [db |-> s, moved |-> FALSE, err |-> TRUE]
                 ELSE IF task.start_date < parent_end_date
                      THEN [db |-> [s EXCEPT ![id] = Task(parent_end_date, task.duration_days,
                                                          task.dependency_id)],
                            moved |-> TRUE, err |-> FALSE]
                      ELSE [db |-> s, moved |-> FALSE, err |-> FALSE]
        ELSE [db |-> s, moved |-> FALSE, err |-> FALSE]

\* adjust_start_date_based_on_dependency(task): the store after the call, the
\* value returned, and whether the date arithmetic raised OverflowError.
Adjust(s, id) ==
    LET task == s[id]
    IN  IF task.dependency_id # 0 /\ Has(s, task.dependency_id)
        THEN LET parent == s[task.dependency_id]
                 parent_end_date == EndDate(parent)
             IN  IF parent_end_date > MaxDate
                 THEN [db |-> s, moved |-> FALSE, err |-> TRUE]
                 ELSE IF task.start_date < parent_end_date
                      THEN [db |-> [s EXCEPT ![id].start_date = parent_end_date],
                            moved |-> TRUE, err |-> FALSE]
                      ELSE [db |-> s, moved |-> FALSE, err |-> FALSE]
        ELSE [db |-> s, moved |-> FALSE, err |-> FALSE]

\* the query without its filter on the task's id: every task that has a
\* dependency_id at all
FollowersAny(s, id) == {f \in Ids : s[f].exists /\ s[f].dependency_id # 0}

\* Task.query.filter_by(dependency_id=task.id).all()
Followers(s, id) == {f \in Ids : s[f].exists /\ s[f].dependency_id = id}

\* ------------------------------------------------------------- topology
\* the existing predecessor of t, or 0
Pred(s, t) == IF Has(s, t) /\ Has(s, s[t].dependency_id) THEN s[t].dependency_id ELSE 0

RECURSIVE Climb(_, _, _)
Climb(s, t, n) == IF n = 0 \/ t = 0 THEN t ELSE Climb(s, Pred(s, t), n - 1)

OnCycle(s, t) == \E n \in 1 .. MaxTasks : Climb(s, t, n) = t

IsForest(s) == \A t \in Ids : ~OnCycle(s, t)

\* tasks reachable from r through follower edges (r itself excluded on a forest)
Descendants(s, r) == {t \in Ids : \E n \in 1 .. MaxTasks : Climb(s, t, n) = r}

\* t starts no earlier than its existing predecessor ends
Satisfied(s, t) == Pred(s, t) # 0 => s[t].start_date >= EndDate(s[Pred(s, t)])

\* ------------------------------------------------------------- cascade walker
Frame(s, id) == [node |-> id, todo |-> Followers(s, id)]

\* a call of cascade_updates whose "for follower in followers" loop is exhausted
\* returns to its caller, whose loop goes on
RECURSIVE Unwind(_)
Unwind(st) ==
    IF st # <<>> /\ st[Len(st)].todo = {} THEN Unwind(SubSeq(st, 1, Len(st) - 1)) ELSE st

\* cascade_updates(task_id) called from the endpoint: "if not task: return"
Enter(s, id) == IF Has(s, id) THEN Unwind(<<Frame(s, id)>>) ELSE <<>>

\* the walker without its recursive call: only direct followers are adjusted
StackAfterNoDescent(st, s, f, moved) ==
    Unwind([st EXCEPT ![Len(st)].todo = @ \ {f}])

\* the walker that descends into every follower, moved or not
StackAfterAlways(st, s, f, moved) ==
    Unwind(Append([st EXCEPT ![Len(st)].todo = @ \ {f}], Frame(s, f)))

\* the walker whose loop ends ("else: break") at the first follower not moved
StackAfterBreak(st, s, f, moved) ==
    LET rest == [st EXCEPT ![Len(st)].todo = @ \ {f}]
    IN  IF moved THEN Unwind(Append(rest, Frame(s, f)))
        ELSE Unwind([st EXCEPT ![Len(st)].todo = {}])

\* the stack once the loop of the top frame has examined follower f in store s:
\* "if adjust_start_date_based_on_dependency(follower): cascade_updates(follower.id)"
StackAfter(st, s, f, moved) ==
    LET rest == [st EXCEPT ![Len(st)].todo = @ \ {f}]
    IN  IF moved THEN Unwind(Append(rest, Frame(s, f))) ELSE Unwind(rest)

\* a walker that commits every follower as soon as it is moved
CommittedEachMove(d, s) == s

\* what the database holds after a follower was moved in the session: nothing
\* new, cascade_updates never commits (the endpoint commits once it has returned)
CommittedAfterMove(d, s) == d

\* id the database gives a new task (SQLite rowid: largest id in use + 1)
NextId(s) ==
    IF \A i \in Ids : ~s[i].exists THEN 1
    ELSE 1 + CHOOSE i \in Ids : s[i].exists /\ \A j \in Ids : s[j].exists => j <= i

AdjRecord(s, id, r) ==
    [id |-> id, old |-> s[id].start_date, new |-> r.db[id].start_date,
     pend |-> IF Pred(s, id) # 0 THEN EndDate(s[Pred(s, id)]) ELSE -1,
     moved |-> r.moved, err |-> r.err]

\* ------------------------------------------------------------- endpoints
\* add_task_api, up to db.session.add(t)
AddTaskCreate(s, d, p) ==
    /\ pc = "idle"
    /\ NextId(db) \in Ids
    /\ session' = [session EXCEPT ![NextId(db)] = Task(s, d, p)]
    /\ cur' = NextId(db)
    /\ pc' = "add_adjust"
    /\ cyclic' = (cyclic \/ ~IsForest(session'))
    /\ UNCHANGED <<db, stack, outcome, pre, visited, nvisits, last, prev, orphans, conc>>

\* add_task_api: adjust_start_date_based_on_dependency(t); db.session.commit()
AddTaskAdjust ==
    /\ pc = "add_adjust"
    /\ LET r == Adjust(session, cur)
       IN  /\ last' = AdjRecord(session, cur, r)
           /\ session' = r.db
           /\ db' = IF r.err THEN db ELSE r.db
           /\ outcome' = IF r.err THEN "OverflowError" ELSE "ok"
    /\ pc' = "done"
    /\ UNCHANGED <<cur, stack, pre, visited, nvisits, prev, cyclic, orphans, conc>>

\* update_task_api, up to the assignment of the request's fields
UpdateTaskEdit(id, s, d, p) ==
    /\ pc = "idle"
    /\ cur' = id
    /\ IF Has(db, id)
       THEN /\ session' = [session EXCEPT ![id].start_date = s,
                                           ![id].duration_days = d,
                                           ![id].dependency_id = p]
            /\ pc' = "upd_adjust"
            /\ outcome' = outcome
       ELSE /\ session' = session
            /\ pc' = "done"
            /\ outcome' = "not_found"
    /\ cyclic' = (cyclic \/ ~IsForest(session'))
    /\ orphans' = IF p = session[id].dependency_id THEN orphans ELSE orphans \ {id}
    /\ UNCHANGED <<db, stack, pre, visited, nvisits, last, prev, conc>>

\* update_task_api: adjust_start_date_based_on_dependency(t); db.session.commit();
\* then the call cascade_updates(t.id) up to its followers query
UpdateTaskAdjust ==
    /\ pc = "upd_adjust"
    /\ LET r == Adjust(session, cur)
       IN  /\ last' = AdjRecord(session, cur, r)
           /\ session' = r.db
           /\ IF r.err
              THEN /\ db' = db
                   /\ pc' = "done"
                   /\ outcome' = "OverflowError"
                   /\ UNCHANGED <<stack, pre>>
              ELSE /\ db' = r.db
                   /\ pc' = "cascade"
                   /\ outcome' = outcome
                   /\ stack' = Enter(r.db, cur)
                   /\ pre' = r.db
    /\ UNCHANGED <<cur, visited, nvisits, prev, cyclic, orphans, conc>>

\* cascade_updates(root) on its own: the call of update_task_api line 249, from
\* a store the earlier requests left behind
CascadeCall(root) ==
    /\ pc = "idle"
    /\ cur' = root
    /\ pc' = "cascade"
    /\ stack' = Enter(session, root)
    /\ pre' = session
    /\ UNCHANGED <<db, session, outcome, visited, nvisits, last, prev, cyclic, orphans, conc>>

\* one turn of the loop of the innermost cascade_updates call: the follower is
\* adjusted and, when it moved, cascade_updates is called on it
CascadeStep ==
    /\ pc = "cascade"
    /\ stack # <<>>
    /\ \E f \in stack[Len(stack)].todo :
         LET r == Adjust(session, f)
         IN  /\ last' = AdjRecord(session, f, r)
             /\ visited' = visited \cup {f}
             /\ nvisits' = nvisits + 1
             /\ session' = r.db
             /\ IF r.err
                THEN /\ pc' = "done"
                     /\ outcome' = "OverflowError"
                     /\ stack' = <<>>
                     /\ db' = db
                ELSE IF r.moved /\ Len(stack) >= RecursionLimit
                THEN /\ pc' = "done"
                     /\ outcome' = "RecursionError"
                     /\ stack' = <<>>
                     /\ db' = db
                ELSE /\ pc' = pc
                     /\ outcome' = outcome
                     /\ stack' = StackAfter(stack, r.db, f, r.moved)
                     /\ db' = IF r.moved THEN CommittedAfterMove(db, r.db) ELSE db
    /\ UNCHANGED <<cur, pre, prev, cyclic, orphans, conc>>

\* update_task_api: the db.session.commit() that follows cascade_updates(t.id)
UpdateTaskCommit ==
    /\ pc = "cascade"
    /\ stack = <<>>
    /\ db' = session
    /\ pc' = "done"
    /\ outcome' = "ok"
    /\ UNCHANGED <<session, cur, stack, pre, visited, nvisits, last, prev, cyclic, orphans, conc>>

\* the table after db.session.delete(t): the row is gone, no other row is
\* touched (Task has no relationship on dependency_id and SQLite does not
\* enforce the foreign key)
StoreAfterDelete(s, id) == [s EXCEPT ![id] = Absent]

\* delete_task_api, the whole handler up to its response
DeleteTask(id) ==
    /\ pc = "idle"
    /\ cur' = id
    /\ pc' = "done"
    /\ IF Has(db, id)
       THEN /\ db' = StoreAfterDelete(db, id)
            /\ outcome' = "deleted"
            /\ orphans' = (orphans \cup Followers(db, id)) \ {id}
       ELSE /\ db' = db
            /\ outcome' = "nothing_deleted"
            /\ orphans' = orphans
    /\ session' = db'
    /\ UNCHANGED <<stack, pre, visited, nvisits, last, prev, cyclic, conc>>

\* complete_task_api, the whole handler: is_completed is toggled and committed
CompleteTask(id) ==
    /\ pc = "idle"
    /\ Has(db, id)
    /\ db' = [db EXCEPT ![id].is_completed = ~@]
    /\ session' = db'
    /\ UNCHANGED <<pc, cur, stack, outcome, pre, visited, nvisits, last, prev, cyclic, orphans, conc>>

\* the request dies inside cascade_updates (worker killed, storage failure):
\* nothing of the cascade was committed, the session is discarded
Interrupt ==
    /\ pc = "cascade"
    /\ stack # <<>>
    /\ pc' = "done"
    /\ outcome' = "interrupted"
    /\ stack' = <<>>
    /\ UNCHANGED <<db, session, cur, pre, visited, nvisits, last, prev, cyclic, orphans, conc>>

\* the response is sent and the session removed: uncommitted changes are rolled
\* back.  keep says whether the history of the cascade is kept for the next one.
Respond(keep) ==
    /\ pc = "done"
    /\ pc' = "idle"
    /\ session' = db
    /\ cur' = 0
    /\ stack' = <<>>
    /\ outcome' = "none"
    /\ pre' = EmptyStore
    /\ visited' = {}
    /\ nvisits' = 0
    /\ last' = NoAdj
    /\ prev' = IF keep
               THEN [root |-> cur, outcome |-> outcome,
                     pre |-> IF outcome = "interrupted" THEN pre ELSE EmptyStore,
                     moved |-> session # pre]
               ELSE NoPrev
    /\ UNCHANGED <<db, cyclic, orphans, conc>>

\* ------------------------------------------------------------- requests side by side
\* Two update_task_api requests served by different threads.  Each has its own
\* session: a row it has loaded stays as loaded (identity map) until the
\* session commits, whatever other requests commit meanwhile; a commit writes
\* the columns the session changed and expires everything it had loaded.
\* SQLite lets one session write at a time: the first flush takes the write
\* lock, the commit releases it.
served == <<session, pc, cur, stack, outcome, pre, visited, nvisits, last, prev, cyclic,
            orphans>>

\* the rows as the session of request r sees them
View(r) == [i \in Ids |-> IF i \in reqs[r].loaded THEN reqs[r].seen[i] ELSE db[i]]

Busy(r) == reqs[r].pc \in {"committed", "cascade"}

\* update_task_api up to its first commit (lines 232-246), for a request that
\* edits start_date and duration_days and sends the dependency_id the task has
ConcUpdate(r, id, s, d) ==
    /\ reqs[r].pc = "idle"
    /\ writer = "none"
    /\ Has(db, id)
    /\ LET edited == [db EXCEPT ![id].start_date = s, ![id].duration_days = d]
           a == Adjust(edited, id)
       IN  IF a.err
           THEN /\ db' = db
                /\ reqs' = [reqs EXCEPT ![r].pc = "done", ![r].cur = id,
                                         ![r].outcome = "OverflowError"]
           ELSE /\ db' = a.db
                /\ reqs' = [reqs EXCEPT ![r].pc = "committed", ![r].cur = id]
    /\ overlap' = (overlap \/ \E o \in Requests \ {r} : Busy(o))
    /\ UNCHANGED <<writer, served>>

\* cascade_updates(t.id) of line 249 up to its followers query: the task and
\* its followers are loaded into the session
ConcCascadeCall(r) ==
    /\ reqs[r].pc = "committed"
    /\ LET root == reqs[r].cur
           got == {root} \cup Followers(db, root)
       IN  reqs' = [reqs EXCEPT ![r].pc = "cascade",
                                ![r].stack = Enter(db, root),
                                ![r].loaded = got,
                                ![r].seen = [i \in Ids |-> IF i \in got THEN db[i] ELSE Absent]]
    /\ UNCHANGED <<db, writer, overlap, served>>

\* one turn of the loop of the innermost cascade_updates call of request r: the
\* follower is adjusted as the session sees it and its predecessor; when it
\* moved, cascade_updates(follower.id) flushes it (taking the write lock) and
\* loads its followers
ConcCascadeStep(r) ==
    /\ reqs[r].pc = "cascade"
    /\ reqs[r].stack # <<>>
    /\ \E f \in reqs[r].stack[Len(reqs[r].stack)].todo :
         LET v == View(r)
             a == Adjust(v, f)
             par == IF Has(v, v[f].dependency_id) THEN {v[f].dependency_id} ELSE {}
             next == IF a.moved /\ ~a.err THEN Followers(db, f) ELSE {}
             got == reqs[r].loaded \cup {f} \cup par \cup next
             rows == [i \in Ids |-> IF i \in got THEN a.db[i] ELSE Absent]
         IN  IF a.err \/ (a.moved /\ Len(reqs[r].stack) >= RecursionLimit)
             THEN /\ reqs' = [reqs EXCEPT ![r].pc = "done", ![r].stack = <<>>,
                                           ![r].loaded = {}, ![r].seen = EmptyStore,
                                           ![r].dirty = {},
                                           ![r].outcome = IF a.err THEN "OverflowError"
                                                          ELSE "RecursionError"]
                  /\ writer' = IF writer = r THEN "none" ELSE writer
             ELSE /\ a.moved => writer \in {"none", r}
                  /\ writer' = IF a.moved THEN r ELSE writer
                  /\ reqs' = [reqs EXCEPT
                                 ![r].stack = StackAfter(@, db, f, a.moved),
                                 ![r].loaded = got,
                                 ![r].seen = rows,
                                 ![r].dirty = IF a.moved THEN @ \cup {f} ELSE @]
    /\ UNCHANGED <<db, overlap, served>>

\* the db.session.commit() of line 250: the start dates the session changed
\* are written, the lock is released, the session expires what it loaded
ConcCommit(r) ==
    /\ reqs[r].pc = "cascade"
    /\ reqs[r].stack = <<>>
    /\ db' = [i \in Ids |-> IF i \in reqs[r].dirty /\ db[i].exists
                             THEN [db[i] EXCEPT !.start_date = reqs[r].seen[i].start_date]
                             ELSE db[i]]
    /\ writer' = IF writer = r THEN "none" ELSE writer
    /\ reqs' = [reqs EXCEPT ![r].pc = "done", ![r].outcome = "ok",
                             ![r].loaded = {}, ![r].seen = EmptyStore, ![r].dirty = {}]
    /\ UNCHANGED <<overlap, served>>

\* ------------------------------------------------------------- specifications
Init ==
    /\ db = EmptyStore
    /\ session = EmptyStore
    /\ pc = "idle"
    /\ cur = 0
    /\ stack = <<>>
    /\ outcome = "none"
    /\ pre = EmptyStore
    /\ visited = {}
    /\ nvisits = 0
    /\ last = NoAdj
    /\ prev = NoPrev
    /\ cyclic = FALSE
    /\ orphans = {}
    /\ reqs = [r \in Requests |-> NoRequest]
    /\ writer = "none"
    /\ overlap = FALSE

\* requests served one at a time, from the empty store
Next ==
    \/ \E s \in Starts, d \in Durations, p \in Deps : AddTaskCreate(s, d, p)
    \/ AddTaskAdjust
    \/ \E id \in Ids, s \in Starts, d \in Durations, p \in Deps : UpdateTaskEdit(id, s, d, p)
    \/ UpdateTaskAdjust
    \/ CascadeStep
    \/ UpdateTaskCommit
    \/ Respond(FALSE)

Spec == Init /\ [][Next]_vars

\* any store of at most MaxTasks tasks: every shape and every choice of dates
\* is left behind by some run of the endpoints, up to the naming of the ids
Rows == {Absent} \cup {Task(s, d, p) : s \in Starts, d \in Durations, p \in Deps}

InitCascade ==
    /\ db \in [Ids -> Rows]
    /\ session = db
    /\ pc = "idle"
    /\ cur = 0
    /\ stack = <<>>
    /\ outcome = "none"
    /\ pre = EmptyStore
    /\ visited = {}
    /\ nvisits = 0
    /\ last = NoAdj
    /\ prev = NoPrev
    /\ cyclic = ~IsForest(db)
    /\ orphans = {}
    /\ reqs = [r \in Requests |-> NoRequest]
    /\ writer = "none"
    /\ overlap = FALSE

\* cascades run one at a time, each from a root of the caller's choice
NextCascade ==
    \/ \E root \in Ids : CascadeCall(root)
    \/ CascadeStep
    \/ UpdateTaskCommit
    \/ Interrupt
    \/ Respond(TRUE)

SpecCascade == InitCascade /\ [][NextCascade]_vars

\* add, update and delete requests served one at a time, from the empty store
NextCrud ==
    \/ \E s \in Starts, d \in Durations, p \in Deps : AddTaskCreate(s, d, p)
    \/ AddTaskAdjust
    \/ \E id \in Ids, s \in Starts, d \in Durations, p \in Deps : UpdateTaskEdit(id, s, d, p)
    \/ UpdateTaskAdjust
    \/ CascadeStep
    \/ UpdateTaskCommit
    \/ \E id \in Ids : DeleteTask(id)
    \/ Respond(FALSE)

SpecCrud == Init /\ [][NextCrud]_vars

\* a store the earlier requests left consistent: a forest in which every task
\* starts on or after the end of its predecessor
InitConcurrent ==
    /\ InitCascade
    /\ IsForest(db)
    /\ \A t \in Ids : Satisfied(db, t)

\* two update requests, each served once, their steps interleaved at will
NextConcurrent ==
    \/ \E r \in Requests, id \in Ids, s \in Starts, d \in Durations : ConcUpdate(r, id, s, d)
    \/ \E r \in Requests : ConcCascadeCall(r)
    \/ \E r \in Requests : ConcCascadeStep(r)
    \/ \E r \in Requests : ConcCommit(r)

SpecConcurrent == InitConcurrent /\ [][NextConcurrent]_vars

\* cascades over stores whose tasks have been marked complete or not
NextFrame ==
    \/ \E id \in Ids : CompleteTask(id)
    \/ \E root \in Ids : CascadeCall(root)
    \/ CascadeStep
    \/ UpdateTaskCommit
    \/ Respond(FALSE)

SpecFrame == InitCascade /\ [][NextFrame]_vars

\* ------------------------------------------------------------- claims
\* the cascade of the current request has returned and its moves are committed
Returned == pc = "done" /\ outcome = "ok"

NumTasks(s) == Cardinality({t \in Ids : s[t].exists})

Later(a, b) == IF a >= b THEN a ELSE b

\* the walk of cascade_updates(root) with the followers of every task taken in
\* ascending id order, as one function of the store (evaluated on forests only)
RECURSIVE OrderedLoop(_, _)
OrderedLoop(s, todo) ==
    IF todo = {} THEN s
    ELSE LET f == CHOOSE x \in todo : \A y \in todo : x <= y
             r == Adjust(s, f)
         IN  OrderedLoop(IF r.moved THEN OrderedLoop(r.db, Followers(r.db, f)) ELSE s,
                         todo \ {f})

CascadeOrdered(s, root) == IF Has(s, root) THEN OrderedLoop(s, Followers(s, root)) ELSE s

\* C1: from the empty store, after add_task and update_task requests served one
\* at a time that kept the dependency edges a forest, every task with an
\* existing predecessor starts no earlier than that predecessor ends.
C1_DependencyInvariant ==
    (pc = "idle" /\ ~cyclic) => \A t \in Ids : Satisfied(db, t)

\* C2: a cascade started from a task on a dependency cycle examines no more
\* followers than there are tasks, and when it fails it reports "cycle detected".
C2_CycleGuard ==
    (nvisits > 0 /\ OnCycle(session, cur)) =>
        /\ nvisits <= NumTasks(session)
        /\ (pc = "done" /\ outcome # "ok") => outcome = "CycleDetected"

\* C3 as stated: on a forest, whatever the start dates before, once the cascade
\* from root has returned every task below root satisfies the invariant and no
\* other task was modified.
C3_AnyPreState ==
    (Returned /\ IsForest(pre)) =>
        /\ \A t \in Descendants(pre, cur) : Satisfied(session, t)
        /\ \A t \in Ids \ Descendants(pre, cur) : session[t] = pre[t]

\* the tasks two or more follower edges below root satisfy the invariant
DeepSatisfied(s, root) ==
    \A t \in Descendants(s, root) \ Followers(s, root) : Satisfied(s, t)

\* C3 amended: on a forest whose tasks two or more follower edges below root
\* satisfied the invariant before, once the cascade from root has returned
\* every task below root satisfies the invariant and no other task was modified.
C3_CascadeGuarantee ==
    (Returned /\ IsForest(pre) /\ DeepSatisfied(pre, cur)) =>
        /\ \A t \in Descendants(pre, cur) : Satisfied(session, t)
        /\ \A t \in Ids \ Descendants(pre, cur) : session[t] = pre[t]

\* a cascade that moved a task two follower edges below its root
C3_Witness ==
    /\ Returned /\ IsForest(pre) /\ DeepSatisfied(pre, cur)
    /\ \E t \in Descendants(pre, cur) \ Followers(pre, cur) : session[t] # pre[t]

\* C4: on a forest, a cascade that follows a returned cascade from the same
\* root changes no start date.
C4_SecondRunIsNoOp ==
    (Returned /\ IsForest(pre) /\ prev.outcome = "ok" /\ prev.root = cur) => session = pre

\* the second of two cascades from one root, the first of which moved a task
C4_Witness ==
    /\ Returned /\ IsForest(pre) /\ prev.outcome = "ok" /\ prev.root = cur
    /\ prev.moved /\ nvisits > 0

EngineStep == pc \in {"add_adjust", "upd_adjust", "cascade"}

\* C6: a step of the engine changes the start date of a task only when that
\* date was strictly earlier than the end date its predecessor had at the step.
C6_NoSpuriousMove ==
    [][\A t \in Ids :
         (EngineStep /\ session[t].exists /\ session'[t].start_date # session[t].start_date)
             => (Pred(session, t) # 0 /\ session[t].start_date < EndDate(session[Pred(session, t)]))]_vars

\* the rule has examined a task that starts after its predecessor's end and
\* has left it where it was
C6_Witness ==
    last.id # 0 /\ last.pend # -1 /\ last.old > last.pend /\ last.new = last.old

\* C7: on a forest, when a cascade has examined a follower and not moved it, no
\* descendant of that follower is examined or modified by that cascade.
C7_Pruning ==
    (pc \in {"cascade", "done"} /\ IsForest(pre)) =>
        \A f \in visited :
            session[f] = pre[f] =>
                \A d \in Descendants(pre, f) : d \notin visited /\ session[d] = pre[d]

\* a returned cascade that left a follower unmoved above a descendant that
\* starts before its own predecessor ends
C7_Witness ==
    /\ Returned /\ IsForest(pre)
    /\ \E f \in visited :
         /\ session[f] = pre[f]
         /\ \E d \in Descendants(pre, f) : ~Satisfied(session, d)

\* C8: on a forest, whatever the order in which the followers of each task are
\* taken, the cascade ends with the start dates of the walk in ascending id order.
C8_OrderIndependent ==
    (Returned /\ IsForest(pre)) => session = CascadeOrdered(pre, cur)

\* a returned cascade whose root has two followers, one moved and one not
C8_Witness ==
    /\ Returned /\ IsForest(pre)
    /\ \E f, g \in Followers(pre, cur) : session[f] # pre[f] /\ session[g] = pre[g]

\* C9: for a task with an existing predecessor the rule leaves start_date at the
\* later of its old value and the predecessor's end, and reports moved exactly
\* when the old value was strictly earlier than that end.
C9_AdjustmentRule ==
    (last.id # 0 /\ last.pend # -1 /\ ~last.err) =>
        /\ last.new = Later(last.old, last.pend)
        /\ last.moved <=> (last.old < last.pend)

\* the rule has examined a task that starts exactly on the end of a
\* predecessor of duration 0
C9_Witness ==
    /\ last.id # 0 /\ last.pend # -1 /\ ~last.err
    /\ last.old = last.pend /\ ~last.moved
    /\ session[Pred(session, last.id)].duration_days = 0

\* t has no dependency_id, or one that refers to no task
NoPredecessor(s, t) == s[t].exists /\ Pred(s, t) = 0

\* C10: the rule applied to a task without an existing predecessor reports not
\* moved, raises nothing and leaves its start date; no cascade changes such a task.
C10_NoPredecessorNoOp ==
    /\ (last.id # 0 /\ last.pend = -1) =>
           (~last.moved /\ ~last.err /\ last.new = last.old)
    /\ \A t \in Ids : NoPredecessor(pre, t) => session[t].start_date = pre[t].start_date

\* the rule has examined a task whose dependency_id refers to no task
C10_Witness ==
    /\ last.id # 0 /\ last.pend = -1
    /\ session[last.id].dependency_id # 0

\* C11: a step of the engine (adjustment rule or cascade) leaves the start date
\* of every task equal or later; a task that starts on or after its
\* predecessor's end is never brought closer to it.
C11_OnlyForward ==
    [][\A t \in Ids :
         (EngineStep /\ session[t].exists)
             => session'[t].start_date >= session[t].start_date]_vars

\* the rule has pushed a task forward, onto the end of its predecessor
C11_Witness ==
    last.id # 0 /\ last.moved /\ last.new > last.old /\ last.new = last.pend

\* C12: the adjustment rule and the cascade change nothing but start_date: every
\* task keeps its duration_days, dependency_id and is_completed, and no task
\* is added or removed.
C12_OnlyStartDate ==
    [][\A t \in Ids :
         EngineStep =>
             /\ session'[t].exists = session[t].exists
             /\ session'[t].duration_days = session[t].duration_days
             /\ session'[t].dependency_id = session[t].dependency_id
             /\ session'[t].is_completed = session[t].is_completed]_vars

\* the cascade has moved a task that is marked complete
C12_Witness ==
    /\ pc = "cascade"
    /\ last.id # 0 /\ last.moved
    /\ session[last.id].is_completed
    /\ session[last.id].start_date # pre[last.id].start_date

\* the chain P -> F1 -> F2 of the store s: F1 follows P, F2 follows F1
Chain(s, P, F1, F2) ==
    /\ Has(s, P) /\ Has(s, F1) /\ Has(s, F2)
    /\ s[F1].dependency_id = P /\ s[F2].dependency_id = F1
    /\ IsForest(s)

\* update_task_api on P has returned, after P's end passed the start of F1
EditedPast(P, F1, F2) ==
    /\ Returned /\ cur = P
    /\ Chain(pre, P, F1, F2)
    /\ EndDate(pre[P]) > pre[F1].start_date

\* F1 and F2 moved forward by the same number of days, each onto the new end
\* of its predecessor
ShiftedTogether(P, F1, F2) ==
    /\ session[F1].start_date - pre[F1].start_date
           = session[F2].start_date - pre[F2].start_date
    /\ session[F1].start_date > pre[F1].start_date
    /\ session[F1].start_date = EndDate(session[P])
    /\ session[F2].start_date = EndDate(session[F1])

\* C13 as stated: on a chain P -> F1 -> F2, an edit of P whose end passes the
\* start of F1 moves F1 and F2 forward by the same number of days, each onto
\* the new end of its predecessor.
C13_ChainShiftsTogether ==
    \A P \in Ids, F1 \in Ids, F2 \in Ids :
        EditedPast(P, F1, F2) => ShiftedTogether(P, F1, F2)

\* C13: on a chain P -> F1 -> F2 in which F2 started exactly on the end of F1,
\* an edit of P whose end passes the start of F1 moves F1 and F2 forward by the
\* same number of days, each onto the new end of its predecessor.
C13_TightChainShiftsTogether ==
    \A P \in Ids, F1 \in Ids, F2 \in Ids :
        (EditedPast(P, F1, F2) /\ pre[F2].start_date = EndDate(pre[F1]))
            => ShiftedTogether(P, F1, F2)

\* a tight chain whose two followers have been pushed by the edit of P
C13_Witness ==
    \E P \in Ids, F1 \in Ids, F2 \in Ids :
        /\ EditedPast(P, F1, F2)
        /\ pre[F2].start_date = EndDate(pre[F1])
        /\ session[F2].start_date > pre[F2].start_date
        /\ db = session

\* C14: a task-create and a task-edit alike run the adjustment rule on the task
\* and then the cascade walker rooted at the task before they complete: when
\* the request has returned, every follower of its task has been examined.
C14_CascadeOnCreateAndEdit ==
    Returned => (last.id # 0 /\ Followers(session, cur) \subseteq visited)

\* C15: on a forest, cascade_updates from any root terminates: it examines
\* only descendants of the root and each of them at most once, so it takes at
\* most as many steps as the root has descendants, never exhausts the
\* recursion stack, and a call that is not finished always has a next step.
C15_ForestTerminates ==
    (pc \in {"cascade", "done"} /\ IsForest(pre)) =>
        /\ visited \subseteq Descendants(pre, cur)
        /\ nvisits = Cardinality(visited)
        /\ outcome # "RecursionError"
        /\ Len(stack) <= NumTasks(pre)
        /\ (stack # <<>> => stack[Len(stack)].todo # {})

\* a cascade on a forest has returned after examining every descendant of its
\* root, two levels deep
C15_Witness ==
    /\ Returned /\ IsForest(pre)
    /\ visited = Descendants(pre, cur)
    /\ nvisits = 2
    /\ \E f \in visited : pre[f].dependency_id \in visited

\* a cascade is running, or has ended, whose root lies on a dependency cycle
CascadeOnCycle == pc \in {"cascade", "done"} /\ Has(pre, cur) /\ OnCycle(pre, cur)

\* C16 as stated: a cascade started from a task on a dependency cycle never
\* terminates, whatever the start dates and durations on the cycle.
C16_CycleNeverReturns == CascadeOnCycle => ~Returned

\* C16: a cascade started from a task on a dependency cycle that has moved its
\* own root never returns: the walk goes round the cycle until the recursion
\* limit or the date range is exhausted.
C16_MovedRootNeverReturns ==
    (CascadeOnCycle /\ session[cur].start_date # pre[cur].start_date) => ~Returned

\* the walk round a cycle has moved its root and died at the recursion limit
C16_Witness ==
    /\ CascadeOnCycle
    /\ session[cur].start_date # pre[cur].start_date
    /\ pc = "done" /\ outcome = "RecursionError"

\* C17: after any sequence of add, update and delete requests the committed
\* dependency edges form a forest: no task is reachable from itself, and no
\* task has its own id as dependency_id.
C17_StaysForest ==
    /\ IsForest(db)
    /\ \A t \in Ids : db[t].exists => db[t].dependency_id # t

\* C19: an update makes the edited task's new schedule and the moves of its
\* followers durable as one unit: while the update is between its steps, the
\* committed rows never hold the task's new start_date and duration_days
\* next to a follower that the cascade is going to move.
C19_AtomicUpdate ==
    pc = "cascade" =>
        \A f \in Followers(db, cur) :
            (f # cur /\ db[cur] = session[cur]) => db[f].start_date >= EndDate(db[cur])

\* delete_task_api removes its task and nothing else: every other row is kept
\* as it was, and no follower is examined
DeleteChangesNoOther ==
    [][(pc = "idle" /\ outcome' \in {"deleted", "nothing_deleted"}) =>
           /\ \A t \in Ids \ {cur'} : db'[t] = db[t]
           /\ ~Has(db', cur')
           /\ nvisits' = 0 /\ last' = NoAdj /\ stack' = <<>>]_vars

\* C20: deleting a task changes no other task; a former follower keeps its
\* start_date, duration_days and dependency_id, and every later adjustment of
\* it finds no predecessor and leaves it where it is.
C20_FormerFollowerNoPredecessor ==
    \A t \in orphans :
        /\ db[t].exists
        /\ last.id = t => (last.pend = -1 /\ ~last.moved)

\* both requests have returned success
BothReturned == \A r \in Requests : reqs[r].pc = "done" /\ reqs[r].outcome = "ok"

\* no request is being served, and none has failed
NoneBusy == \A r \in Requests : reqs[r].pc \in {"idle", "done"} /\ reqs[r].outcome \in {"none", "ok"}

\* C18: two updates on tasks of one dependency tree whose loads and saves
\* interleave can both succeed and leave a task that starts before its
\* predecessor ends (the state C18_Witness), although updates that are served
\* one after the other from the same consistent store always leave every task
\* on or after the end of its predecessor.
C18_AloneKeepsInvariant ==
    (NoneBusy /\ ~overlap) => \A t \in Ids : Satisfied(db, t)

\* both interleaved updates have succeeded and some task starts too early
C18_Witness ==
    /\ BothReturned /\ overlap
    /\ IsForest(db)
    /\ \E t \in Ids : ~Satisfied(db, t)

====
